---- MODULE Spec2Model ----
(***************************************************************************)
(* Booking engine of the golgi-connect resident portal.                    *)
(*                                                                         *)
(* The state is the hosted relational store (tables bookings, slots,       *)
(* weekly_quotas with their constraints, defaults and row-level security)  *)
(* and, per browser session, the signed-in user, the react-query caches    *)
(* the mutation handlers read, and the position of the session's           *)
(* createBooking mutation between its awaits.                               *)
(*                                                                         *)
(* Laundry.tsx and Gym.tsx are the pages of the program; every store       *)
(* round trip of a mutation is one atomic step, so calls of different      *)
(* sessions interleave between the awaits exactly as they do on the store. *)
(***************************************************************************)
EXTENDS Integers, Sequences, FiniteSets, TLC

(***************************************************************************)
(* Bounds of the model.                                                     *)
(***************************************************************************)
\* rows the bookings table may hold under Spec
MaxRows == 2
\* rows the bookings table may hold under SpecWeek and SpecBusy
MaxWeekRows == 5

\* rows the bookings table may hold under SpecRelease
MaxReleaseRows == 5

\* largest weekly usage figure the quota decision is tried with
MaxUsage == 4
\* weeks the page is moved forward from the first week of 2024
MaxShownWeek == 52
\* rows of the ledger the duplicate cleanup is run on
MaxCleanupRows == 3

(***************************************************************************)
(* Identities.                                                              *)
(***************************************************************************)
Users == {"u1", "u2"}
NoUser == "nobody"
Sessions == {"s1", "s2"}
\* user_roles rows: u1 is a resident, u2 holds the staff role
Staff == {"u2"}
NoId == 0
NoTime == -1

(***************************************************************************)
(* Slot catalog.  Slot ids stand for rows of public.slots; the seeded rows *)
(* are the Monday windows.  Times are minutes since midnight, instants are *)
(* minutes since Monday 00:00 of the displayed week.                       *)
(***************************************************************************)
LavSlots == {"L1", "L2", "L3", "L4"}
AscSlots == {"A1", "A2", "A3"}
GymSlots == {"G1", "G2", "G3", "G4", "G5"}
AllSlots == LavSlots \cup AscSlots \cup GymSlots

SlotRes(slot) ==
  IF slot \in LavSlots THEN "LAV" ELSE IF slot \in AscSlots THEN "ASC" ELSE "GYM"

\* capacity column of the slot row
SlotCapacity(slot) ==
  IF slot \in LavSlots THEN 2 ELSE IF slot \in AscSlots THEN 1 ELSE 6

\* day_of_week column (JS getDay numbering, 1 = Monday)
SlotDayOfWeek(slot) == 1

\* index of the daily window: 1 = 08:00-09:30, 2 = 09:30-11:00, ...
SlotWindow(slot) ==
  CASE slot \in {"L1", "A1", "G1"} -> 1
    [] slot \in {"L2", "A2", "G2"} -> 2
    [] slot \in {"L3", "A3", "G3"} -> 3
    [] slot \in {"L4", "G4"} -> 4
    [] OTHER -> 5

\* end_time column as [hours, minutes]: the window ends 90 minutes after it starts
SlotEndTime(slot) ==
  LET m == 480 + 90 * SlotWindow(slot) IN [hours |-> m \div 60, minutes |-> m % 60]

\* the day the page pairs with the slot: weekDays[i] with getDay() = day_of_week,
\* counted in days since the Monday of selectedWeek
DateOf(slot) == (SlotDayOfWeek(slot) + 6) % 7

WeekOf(date) == date \div 7

\* slotDateTime.setHours(hours, minutes) on the slot's date, compared with now
isPast(date, endTime, clock) ==
  date * 1440 + endTime.hours * 60 + endTime.minutes < clock

\* instants the clock shows: the end of window 1 (Monday 09:30) and one minute later
ClockValues == {570, 571}

(***************************************************************************)
(* Store: rows and constraints.                                             *)
(***************************************************************************)
\* DEFAULT of the units column
DefaultUnits == 1

\* bookings_units_check
UnitsCheck(res, units) ==
  \/ res = "LAV" /\ units \in {1, 2}
  \/ res \in {"ASC", "GYM"} /\ units = 1

NewRowOneMore(u, slot, date, res, units) ==
  [user_id |-> u, slot_id |-> slot, booking_date |-> date, resource_type |-> res,
   units |-> units + 1, status |-> "booked", cancelled_by |-> NoUser, cancelled_at |-> NoTime]

NewRow(u, slot, date, res, units) ==
  [user_id |-> u, slot_id |-> slot, booking_date |-> date, resource_type |-> res,
   units |-> units, status |-> "booked", cancelled_by |-> NoUser, cancelled_at |-> NoTime]

SameTuple(r, u, slot, date, res) ==
  /\ r.user_id = u
  /\ r.slot_id = slot
  /\ r.booking_date = date
  /\ r.resource_type = res

Ids(tbl) == 1..Len(tbl)

\* ids of the rows a select ... eq(user_id) eq(slot_id) eq(booking_date)
\* eq(resource_type) eq(status,'booked') returns
ActiveIdsAnyStatus(tbl, u, slot, date, res) ==
  {i \in Ids(tbl) : SameTuple(tbl[i], u, slot, date, res)}

ActiveIds(tbl, u, slot, date, res) ==
  {i \in Ids(tbl) : SameTuple(tbl[i], u, slot, date, res) /\ tbl[i].status = "booked"}

\* uniq_active_booking_per_slot: would the insert of this tuple violate the index
UniqueViolationNoIndex(tbl, u, slot, date, res) == FALSE

UniqueViolation(tbl, u, slot, date, res) ==
  ActiveIds(tbl, u, slot, date, res) # {}

\* has_role(auth.uid(), 'staff') OR has_role(auth.uid(), 'admin')
IsStaff(u) == u \in Staff

\* USING clause of the UPDATE policies on bookings
CanUpdate(u, row) == u # NoUser /\ (u = row.user_id \/ IsStaff(u))

RECURSIVE SumUnits(_, _)
SumUnits(tbl, ids) ==
  IF ids = {} THEN 0
  ELSE LET i == CHOOSE j \in ids : TRUE IN tbl[i].units + SumUnits(tbl, ids \ {i})


(***************************************************************************)
(* State.                                                                   *)
(***************************************************************************)
VARIABLES
  bookings,        \* table public.bookings; a row's id is its position
  slots,           \* ids of the active rows of public.slots
  weekly_quotas,   \* table public.weekly_quotas, per user (one displayed week)
  now,             \* the clock, minutes since Monday 00:00
  user,            \* useAuth().user of each session, NoUser when signed out
  quota,           \* cached result of the laundry page's 'quota' query
  weeklyBookings,  \* cached length of the gym page's 'weeklyGymBookings' query
  pc,              \* where the session's createBooking mutation stands
  args,            \* slot of the session's current (or last) createBooking call
  resp,            \* outcome a finished mutationFn is about to deliver
  result,          \* outcome of the session's last completed createBooking call
  repeat,          \* history: the session's current (or last) call has the same
                   \*   arguments as the call it made just before
  conc,            \* history: sessions of the same user whose call with the same
                   \*   arguments overlapped the session's current (or last) call
  disturbed,       \* history: a booking of the call's tuple was cancelled or marked
                   \*   no_show since the session's current (or last) call began
  selectedWeek,    \* the Monday of the week the page displays, as a day number
  cell,            \* the grid cell the page rendered last
  quotaKey,        \* week_number and year the 'quota' query last asked for
  route            \* a protected route: the guard's inputs and what it shows

vars == <<bookings, slots, weekly_quotas, now, user, quota, weeklyBookings,
          pc, args, resp, result, repeat, conc, disturbed, selectedWeek, cell, quotaKey, route>>

NoResult == [kind |-> "none", id |-> NoId, error |-> ""]
Ok(id) == [kind |-> "ok", id |-> id, error |-> ""]
Err(e) == [kind |-> "error", id |-> NoId, error |-> e]

ZeroQuota == [lav_count |-> 0, asc_count |-> 0]

(***************************************************************************)
(* Initial states: the migrated store holds no booking and no quota row;   *)
(* the catalog and the signed-in users are those of the deployment.        *)
(***************************************************************************)
\* the page shows the current week; nothing rendered or asked for yet
NoCell == [page |-> "none", day |-> 0, window |-> 0, at |-> 0, past |-> FALSE]

NoKey == [selectedWeek |-> 0, week_number |-> 0, year |-> 0]

\* no protected route is mounted
NoRoute ==
  [requiredRole |-> "none", role |-> "none", loading |-> FALSE, user |-> NoUser,
   userRole |-> "undefined", shows |-> "unmounted", location |-> "/"]

InitPage ==
  /\ selectedWeek = 0
  /\ cell = NoCell
  /\ quotaKey = NoKey
  /\ route = NoRoute

InitStore ==
  /\ bookings = <<>>
  /\ weekly_quotas = [u \in Users |-> ZeroQuota]
  /\ now = 570
  /\ InitPage

InitSessions ==
  /\ quota = [s \in Sessions |-> ZeroQuota]
  /\ weeklyBookings = [s \in Sessions |-> 0]
  /\ pc = [s \in Sessions |-> "idle"]
  /\ args = [s \in Sessions |-> "L1"]
  /\ resp = [s \in Sessions |-> NoResult]
  /\ result = [s \in Sessions |-> NoResult]
  /\ repeat = [s \in Sessions |-> FALSE]
  /\ conc = [s \in Sessions |-> {}]
  /\ disturbed = [s \in Sessions |-> FALSE]

\* who is signed in where: resident u1 in both sessions, or resident u1 and
\* staff member u2, or u1 and a signed-out session
SignIns ==
  {[s \in Sessions |-> IF s = "s1" THEN "u1" ELSE u] : u \in {"u1", "u2", NoUser}}

\* one window of each resource type is bookable
Init ==
  /\ InitStore
  /\ InitSessions
  /\ slots \in {{"L1"}, {"A1"}, {"G1"}}
  /\ user \in SignIns


(***************************************************************************)
(* History bookkeeping (not program state).                                 *)
(***************************************************************************)
\* session s starts a createBooking call for slot
Begin(s, slot) ==
  LET partners == {t \in Sessions \ {s} :
                     pc[t] # "idle" /\ user[t] = user[s] /\ args[t] = slot}
  IN /\ conc' = [t \in Sessions |->
                   IF t = s THEN partners
                   ELSE IF t \in partners THEN conc[t] \cup {s} ELSE conc[t] \ {s}]
     /\ repeat' = [repeat EXCEPT ![s] = (args[s] = slot /\ result[s].kind # "none")]
     /\ args' = [args EXCEPT ![s] = slot]
     /\ disturbed' = [disturbed EXCEPT ![s] = FALSE]

\* an active booking of (u, slot) stops being active
Disturb(u, slot) ==
  disturbed' = [s \in Sessions |-> disturbed[s] \/ (user[s] = u /\ args[s] = slot)]

(***************************************************************************)
(* createBooking, up to its first await.                                    *)
(***************************************************************************)
\* maxCount of the laundry page
MaxCountOneMore(res) == IF res = "LAV" THEN 4 ELSE 3

MaxCount(res) == IF res = "LAV" THEN 3 ELSE 2

\* currentCount of the laundry page, from the cached quota row
CurrentCount(q, res) == IF res = "LAV" THEN q.lav_count ELSE q.asc_count

\* weekly limit of the gym page
GymWeeklyLimit == 4

\* the call throws before any store access
Reject(s, slot, e) ==
  /\ Begin(s, slot)
  /\ result' = [result EXCEPT ![s] = Err(e)]
  /\ UNCHANGED <<bookings, slots, route, selectedWeek, cell, quotaKey, weekly_quotas, now, user, quota, weeklyBookings, pc, resp>>

RejectSignedOutAfterLookup(s) ==
  /\ pc' = [pc EXCEPT ![s] = "lookup"]
  /\ UNCHANGED <<bookings, slots, route, selectedWeek, cell, quotaKey, weekly_quotas, now, user, quota, weeklyBookings,
                 result, args, resp, repeat, conc, disturbed>>

\* the call of a signed-out session throws at once
RejectSignedOut(s) ==
  /\ result' = [result EXCEPT ![s] = Err("Not authenticated")]
  /\ UNCHANGED <<bookings, slots, route, selectedWeek, cell, quotaKey, weekly_quotas, now, user, quota, weeklyBookings,
                 pc, args, resp, repeat, conc, disturbed>>

\* the call goes on to the lookup of an existing booking
Proceed(s, slot) ==
  /\ Begin(s, slot)
  /\ pc' = [pc EXCEPT ![s] = "lookup"]
  /\ UNCHANGED <<bookings, slots, route, selectedWeek, cell, quotaKey, weekly_quotas, now, user, quota, weeklyBookings, resp, result>>

LaundryCreateBooking(s, slot) ==
  /\ pc[s] = "idle"
  /\ slot \in slots
  /\ SlotRes(slot) \in {"LAV", "ASC"}
  /\ IF user[s] = NoUser THEN RejectSignedOut(s)
     ELSE IF CurrentCount(quota[s], SlotRes(slot)) >= MaxCount(SlotRes(slot))
          THEN Reject(s, slot, "Weekly quota exceeded")
          ELSE Proceed(s, slot)

GymCreateBooking(s, slot) ==
  /\ pc[s] = "idle"
  /\ slot \in slots
  /\ SlotRes(slot) = "GYM"
  /\ IF user[s] = NoUser THEN RejectSignedOut(s)
     ELSE IF weeklyBookings[s] >= GymWeeklyLimit
          THEN Reject(s, slot, "You can only have 4 gym bookings per week")
          ELSE Proceed(s, slot)

(***************************************************************************)
(* createBooking, the store round trips (the same code on both pages).      *)
(***************************************************************************)
\* data of .maybeSingle() / .single(): the row when exactly one matches, else null
SingleOf(ids) == IF Cardinality(ids) = 1 THEN CHOOSE i \in ids : TRUE ELSE NoId

\* user_id of the inserted row: user.id
InsertOwnerStaff(u) == "u2"

InsertOwner(u) == u

\* units of the inserted row: the gym page sends units: 1, the laundry page
\* sends none and the column default applies
InsertUnitsDouble(res) == 2

InsertUnits(res) == IF res = "GYM" THEN 1 ELSE DefaultUnits

FindExistingThenInsert(s) ==
  /\ pc[s] = "lookup"
  /\ LET existing == SingleOf(ActiveIds(bookings, user[s], args[s], DateOf(args[s]), SlotRes(args[s])))
     IN IF existing # NoId
        THEN /\ resp' = [resp EXCEPT ![s] = Ok(existing)]
             /\ pc' = [pc EXCEPT ![s] = "return"]
             /\ bookings' = IF Len(bookings) < MaxRows
                            THEN Append(bookings, bookings[existing]) ELSE bookings
        ELSE /\ pc' = [pc EXCEPT ![s] = "insert"]
             /\ UNCHANGED <<resp, bookings>>
  /\ UNCHANGED <<slots, route, selectedWeek, cell, quotaKey, weekly_quotas, now, user, quota, weeklyBookings,
                 args, result, repeat, conc, disturbed>>

FindExisting(s) ==
  /\ pc[s] = "lookup"
  /\ LET existing == SingleOf(ActiveIds(bookings, user[s], args[s], DateOf(args[s]), SlotRes(args[s])))
     IN IF existing # NoId
        THEN /\ resp' = [resp EXCEPT ![s] = Ok(existing)]
             /\ pc' = [pc EXCEPT ![s] = "return"]
        ELSE /\ pc' = [pc EXCEPT ![s] = "insert"]
             /\ UNCHANGED resp
  /\ UNCHANGED <<bookings, slots, route, selectedWeek, cell, quotaKey, weekly_quotas, now, user, quota, weeklyBookings,
                 args, result, repeat, conc, disturbed>>

InsertBookingThenConflict(s, limit) ==
  /\ pc[s] = "insert"
  /\ Len(bookings) < limit
  /\ LET slot == args[s]
         res == SlotRes(slot)
     IN /\ bookings' = Append(bookings, NewRow(InsertOwner(user[s]), slot, DateOf(slot), res, InsertUnits(res)))
        /\ IF UniqueViolation(bookings, user[s], slot, DateOf(slot), res)
           THEN pc' = [pc EXCEPT ![s] = "race"] /\ UNCHANGED resp
           ELSE /\ resp' = [resp EXCEPT ![s] = Ok(Len(bookings) + 1)]
                /\ pc' = [pc EXCEPT ![s] = "return"]
  /\ UNCHANGED <<slots, route, selectedWeek, cell, quotaKey, weekly_quotas, now, user, quota, weeklyBookings,
                 args, result, repeat, conc, disturbed>>

InsertBooking(s, limit) ==
  /\ pc[s] = "insert"
  /\ Len(bookings) < limit
  /\ LET slot == args[s]
         res == SlotRes(slot)
     IN IF UniqueViolation(bookings, user[s], slot, DateOf(slot), res)
        THEN /\ pc' = [pc EXCEPT ![s] = "race"]
             /\ UNCHANGED <<bookings, resp>>
        ELSE IF ~UnitsCheck(res, InsertUnits(res))
        THEN /\ pc' = [pc EXCEPT ![s] = "return"]
             /\ resp' = [resp EXCEPT ![s] = Err("23514")]
             /\ UNCHANGED bookings
        ELSE /\ bookings' = Append(bookings, NewRow(InsertOwner(user[s]), slot, DateOf(slot), res, InsertUnits(res)))
             /\ resp' = [resp EXCEPT ![s] = Ok(Len(bookings) + 1)]
             /\ pc' = [pc EXCEPT ![s] = "return"]
  /\ UNCHANGED <<slots, route, selectedWeek, cell, quotaKey, weekly_quotas, now, user, quota, weeklyBookings,
                 args, result, repeat, conc, disturbed>>

RaceLookupThenRetry(s) ==
  /\ pc[s] = "race"
  /\ LET raceData == SingleOf(ActiveIds(bookings, user[s], args[s], DateOf(args[s]), SlotRes(args[s])))
     IN IF raceData # NoId
        THEN resp' = [resp EXCEPT ![s] = Ok(raceData)] /\ pc' = [pc EXCEPT ![s] = "return"]
        ELSE UNCHANGED resp /\ pc' = [pc EXCEPT ![s] = "insert"]
  /\ UNCHANGED <<bookings, slots, route, selectedWeek, cell, quotaKey, weekly_quotas, now, user, quota,
                 weeklyBookings, args, result, repeat, conc, disturbed>>

RaceLookup(s) ==
  /\ pc[s] = "race"
  /\ LET raceData == SingleOf(ActiveIds(bookings, user[s], args[s], DateOf(args[s]), SlotRes(args[s])))
     IN resp' = [resp EXCEPT ![s] = IF raceData # NoId THEN Ok(raceData) ELSE Err("23505")]
  /\ pc' = [pc EXCEPT ![s] = "return"]
  /\ UNCHANGED <<bookings, slots, route, selectedWeek, cell, quotaKey, weekly_quotas, now, user, quota, weeklyBookings,
                 args, result, repeat, conc, disturbed>>

\* the mutation settles: onSuccess or onError runs with the outcome
Settle(s) ==
  /\ pc[s] = "return"
  /\ result' = [result EXCEPT ![s] = resp[s]]
  /\ resp' = [resp EXCEPT ![s] = NoResult]
  /\ pc' = [pc EXCEPT ![s] = "idle"]
  /\ UNCHANGED <<bookings, slots, route, selectedWeek, cell, quotaKey, weekly_quotas, now, user, quota, weeklyBookings,
                 args, repeat, conc, disturbed>>

(***************************************************************************)
(* cancelBooking: one update ... eq('id', bookingId) under row-level        *)
(* security; rows the policies hide are skipped without an error.           *)
(***************************************************************************)
CancelledRowNoActor(row, u, clock) == [row EXCEPT !.status = "cancelled"]

CancelledRow(row, u, clock) ==
  [row EXCEPT !.status = "cancelled", !.cancelled_by = u, !.cancelled_at = clock]

\* what cancelBooking's mutationFn delivers: it throws only the error of the
\* update, and an update is answered without an error whatever rows it reached
\* (none when the id is unknown or the policies hide the row); it returns nothing
CancelOutcome(tbl, u, id) == Ok(NoId)

CancelBookingOfSlot(s, id) ==
  /\ id \in Ids(bookings)
  /\ IF CanUpdate(user[s], bookings[id])
     THEN /\ bookings' = [i \in Ids(bookings) |->
                           IF bookings[i].slot_id = bookings[id].slot_id
                           THEN CancelledRow(bookings[i], user[s], now) ELSE bookings[i]]
          /\ IF bookings[id].status = "booked"
             THEN Disturb(bookings[id].user_id, bookings[id].slot_id)
             ELSE UNCHANGED disturbed
     ELSE UNCHANGED <<bookings, disturbed>>
  /\ UNCHANGED <<slots, route, selectedWeek, cell, quotaKey, weekly_quotas, now, user, quota, weeklyBookings,
                 pc, args, resp, result, repeat, conc>>

CancelBooking(s, id) ==
  /\ id \in Ids(bookings)
  /\ IF CanUpdate(user[s], bookings[id])
     THEN /\ bookings' = [bookings EXCEPT ![id] = CancelledRow(@, user[s], now)]
          /\ IF bookings[id].status = "booked"
             THEN Disturb(bookings[id].user_id, bookings[id].slot_id)
             ELSE UNCHANGED disturbed
     ELSE UNCHANGED <<bookings, disturbed>>
  /\ UNCHANGED <<slots, route, selectedWeek, cell, quotaKey, weekly_quotas, now, user, quota, weeklyBookings,
                 pc, args, resp, result, repeat, conc>>

\* operator action of the booking state machine: booked -> no_show
MarkNoShow(id) ==
  /\ id \in Ids(bookings)
  /\ bookings[id].status = "booked"
  /\ bookings' = [bookings EXCEPT ![id].status = "no_show"]
  /\ Disturb(bookings[id].user_id, bookings[id].slot_id)
  /\ UNCHANGED <<slots, route, selectedWeek, cell, quotaKey, weekly_quotas, now, user, quota, weeklyBookings,
                 pc, args, resp, result, repeat, conc>>

(***************************************************************************)
(* Queries refetched after an invalidation, and the clock.                  *)
(***************************************************************************)
RefetchQuota(s) ==
  /\ user[s] # NoUser
  /\ quota' = [quota EXCEPT ![s] = weekly_quotas[user[s]]]
  /\ UNCHANGED <<bookings, slots, route, selectedWeek, cell, quotaKey, weekly_quotas, now, user, weeklyBookings,
                 pc, args, resp, result, repeat, conc, disturbed>>

\* the user's booked GYM rows with booking_date inside the displayed week
WeeklyGymIds(tbl, u) ==
  {i \in Ids(tbl) : /\ tbl[i].user_id = u
                    /\ tbl[i].resource_type = "GYM"
                    /\ tbl[i].status = "booked"
                    /\ tbl[i].booking_date >= 0
                    /\ tbl[i].booking_date <= 6}

RefetchWeeklyBookings(s) ==
  /\ user[s] # NoUser
  /\ weeklyBookings' = [weeklyBookings EXCEPT ![s] = Cardinality(WeeklyGymIds(bookings, user[s]))]
  /\ UNCHANGED <<bookings, slots, route, selectedWeek, cell, quotaKey, weekly_quotas, now, user, quota,
                 pc, args, resp, result, repeat, conc, disturbed>>

Tick ==
  /\ \E t \in ClockValues : t > now /\ now' = t
  /\ UNCHANGED <<bookings, slots, route, selectedWeek, cell, quotaKey, weekly_quotas, user, quota, weeklyBookings,
                 pc, args, resp, result, repeat, conc, disturbed>>

(***************************************************************************)
(* Specifications.                                                          *)
(***************************************************************************)
Next ==
  \/ \E s \in Sessions, slot \in AllSlots : LaundryCreateBooking(s, slot)
  \/ \E s \in Sessions, slot \in AllSlots : GymCreateBooking(s, slot)
  \/ \E s \in Sessions : FindExisting(s)
  \/ \E s \in Sessions : InsertBooking(s, MaxRows)
  \/ \E s \in Sessions : RaceLookup(s)
  \/ \E s \in Sessions : Settle(s)
  \/ \E s \in Sessions, id \in 1..MaxRows : CancelBooking(s, id)
  \/ \E id \in 1..MaxRows : MarkNoShow(id)
  \/ \E s \in Sessions : RefetchQuota(s)
  \/ \E s \in Sessions : RefetchWeeklyBookings(s)
  \/ Tick

Spec == Init /\ [][Next]_vars


(***************************************************************************)
(* A resident alone on the site (the second session is signed out) books   *)
(* through a week whose catalog holds several windows of one resource type.*)
(* With a single writer no insert is ever refused by the unique index.     *)
(***************************************************************************)
InitWeek ==
  /\ InitStore
  /\ InitSessions
  /\ slots \in {LavSlots, AscSlots, GymSlots}
  /\ user = [s \in Sessions |-> IF s = "s1" THEN "u1" ELSE NoUser]

NextWeek ==
  \/ \E s \in Sessions, slot \in AllSlots : LaundryCreateBooking(s, slot)
  \/ \E s \in Sessions, slot \in AllSlots : GymCreateBooking(s, slot)
  \/ \E s \in Sessions : FindExisting(s)
  \/ \E s \in Sessions : InsertBooking(s, MaxWeekRows)
  \/ \E s \in Sessions : Settle(s)
  \/ \E s \in Sessions : RefetchQuota(s)
  \/ \E s \in Sessions : RefetchWeeklyBookings(s)

SpecWeek == InitWeek /\ [][NextWeek]_vars

(***************************************************************************)
(* The gym page open in two sessions of resident u1, who already holds the *)
(* bookings of windows G1, G2 and G3 of the displayed week (the store as   *)
(* three createBooking calls leave it) and whose pages have refetched;    *)
(* G4 is the one window still free.                                        *)
(***************************************************************************)
BusySlots == {"G1", "G2", "G3", "G4"}

BusyRows ==
  << NewRow("u1", "G1", DateOf("G1"), "GYM", 1),
     NewRow("u1", "G2", DateOf("G2"), "GYM", 1),
     NewRow("u1", "G3", DateOf("G3"), "GYM", 1) >>

InitBusy ==
  /\ bookings = BusyRows
  /\ weekly_quotas = [u \in Users |-> ZeroQuota]
  /\ now = 570
  /\ InitPage
  /\ slots = BusySlots
  /\ user = [s \in Sessions |-> "u1"]
  /\ quota = [s \in Sessions |-> ZeroQuota]
  /\ weeklyBookings = [s \in Sessions |-> 3]
  /\ pc = [s \in Sessions |-> "idle"]
  /\ args = [s \in Sessions |-> "G1"]
  /\ resp = [s \in Sessions |-> NoResult]
  /\ result = [s \in Sessions |-> NoResult]
  /\ repeat = [s \in Sessions |-> FALSE]
  /\ conc = [s \in Sessions |-> {}]
  /\ disturbed = [s \in Sessions |-> FALSE]

NextBusy ==
  \/ \E s \in Sessions, slot \in AllSlots : GymCreateBooking(s, slot)
  \/ \E s \in Sessions : FindExisting(s)
  \/ \E s \in Sessions : InsertBooking(s, MaxWeekRows)
  \/ \E s \in Sessions : RaceLookup(s)
  \/ \E s \in Sessions : Settle(s)
  \/ \E s \in Sessions : RefetchWeeklyBookings(s)

SpecBusy == InitBusy /\ [][NextBusy]_vars

(***************************************************************************)
(* Derived figures of the ledger.                                           *)
(***************************************************************************)
Dates == {DateOf(slot) : slot \in AllSlots}
Resources == {"LAV", "ASC", "GYM"}

\* booked rows of one slot and date, of all users
TakenIds(tbl, slot, date) ==
  {i \in Ids(tbl) : tbl[i].slot_id = slot /\ tbl[i].booking_date = date /\ tbl[i].status = "booked"}

\* booked rows of one user and resource type whose date lies in ISO week w
WeekIds(tbl, u, res, w) ==
  {i \in Ids(tbl) : /\ tbl[i].user_id = u
                    /\ tbl[i].resource_type = res
                    /\ tbl[i].status = "booked"
                    /\ WeekOf(tbl[i].booking_date) = w}

\* booked GYM rows of one user dated today or later
FutureGymIds(tbl, u, clock) ==
  {i \in Ids(tbl) : /\ tbl[i].user_id = u
                    /\ tbl[i].resource_type = "GYM"
                    /\ tbl[i].status = "booked"
                    /\ tbl[i].booking_date >= clock \div 1440}

\* the identity tuple of session s's current (or last) call
CallActiveIds(tbl, s) ==
  ActiveIds(tbl, user[s], args[s], DateOf(args[s]), SlotRes(args[s]))

(***************************************************************************)
(* C1: at most one booking with status booked exists for each tuple        *)
(* (userId, slotId, bookingDate, resourceType), in every reachable state   *)
(* and under every interleaving of creates and cancels.                    *)
(***************************************************************************)
C1_UniqueActive ==
  \A i \in Ids(bookings), j \in Ids(bookings) :
    (i # j /\ bookings[i].status = "booked" /\ bookings[j].status = "booked")
      => ~SameTuple(bookings[j], bookings[i].user_id, bookings[i].slot_id,
                    bookings[i].booking_date, bookings[i].resource_type)

\* a second, identical insert has just been refused by the index
C1_Witness ==
  \E s \in Sessions : pc[s] = "race" /\ CallActiveIds(bookings, s) # {}

(***************************************************************************)
(* C2: for every slot and date the units of the booked rows never exceed   *)
(* the slot's capacity.                                                     *)
(***************************************************************************)
C2_CapacityRespected ==
  \A slot \in slots, date \in Dates :
    SumUnits(bookings, TakenIds(bookings, slot, date)) <= SlotCapacity(slot)

(***************************************************************************)
(* C3: two createBooking calls of one user with identical arguments that   *)
(* overlap, with no booking of the tuple cancelled meanwhile, both end in  *)
(* success with the same booking id, and exactly one active booking is     *)
(* stored.                                                                  *)
(***************************************************************************)
C3_RaceBothSucceed ==
  \A s \in Sessions, t \in Sessions :
    (t \in conc[s] /\ pc[s] = "idle" /\ pc[t] = "idle" /\ ~disturbed[s] /\ ~disturbed[t])
      => /\ result[s].kind = "ok"
         /\ result[t].kind = "ok"
         /\ result[s].id = result[t].id
         /\ Cardinality(CallActiveIds(bookings, s)) = 1

(***************************************************************************)
(* C4: a createBooking call that repeats the arguments of the session's    *)
(* previous, successful call (whose booking is still booked) returns the   *)
(* same booking id again, and the ledger then holds exactly one booked row *)
(* for the tuple.                                                           *)
(***************************************************************************)
CallEnds(s) ==
  /\ pc'[s] = "idle"
  /\ \/ pc[s] = "return"
     \/ pc[s] = "idle" /\ result'[s] # result[s]

C4_SequentialSameId ==
  [][\A s \in Sessions :
      (/\ CallEnds(s)
       /\ repeat'[s]
       /\ result[s].kind = "ok"
       /\ bookings[result[s].id].status = "booked")
        => /\ result'[s] = result[s]
           /\ Cardinality(CallActiveIds(bookings, s)') = 1]_vars

(***************************************************************************)
(* C5: for every user and ISO week the units of the user's booked LAV rows *)
(* of that week sum to at most 3.                                           *)
(***************************************************************************)
C5_LavWeeklyQuota ==
  \A u \in Users, d \in Dates :
    SumUnits(bookings, WeekIds(bookings, u, "LAV", WeekOf(d))) <= 3

(***************************************************************************)
(* C6: for every user and ISO week the user has at most 2 booked ASC rows  *)
(* of that week.                                                            *)
(***************************************************************************)
C6_AscWeeklyQuota ==
  \A u \in Users, d \in Dates :
    Cardinality(WeekIds(bookings, u, "ASC", WeekOf(d))) <= 2

(***************************************************************************)
(* C7: every user has at most 1 booked GYM row dated today or later.       *)
(***************************************************************************)
C7_GymStandingCap ==
  \A u \in Users : Cardinality(FutureGymIds(bookings, u, now)) <= 1

(***************************************************************************)
(* C8: a row with status cancelled keeps that status in every step, and a  *)
(* createBooking call that comes to its outcome while a cancelled row of   *)
(* its tuple exists succeeds only with a different row, one that is        *)
(* booked: it never returns or reactivates the cancelled row.              *)
(***************************************************************************)
Deciding(s) == pc[s] \in {"lookup", "insert", "race"} /\ pc'[s] = "return"

C8_CancelledStaysCancelled ==
  [][\A i \in Ids(bookings) :
      bookings[i].status = "cancelled"
        => /\ i \in Ids(bookings')
           /\ bookings'[i].status = "cancelled"
           /\ \A s \in Sessions :
                (Deciding(s) /\ resp'[s].kind = "ok")
                  => /\ resp'[s].id # i
                     /\ bookings'[resp'[s].id].status = "booked"]_vars

\* a create issued after the cancel of row i has inserted row j for the same tuple
C8_Witness ==
  \E s \in Sessions, i \in Ids(bookings), j \in Ids(bookings) :
    /\ i < j
    /\ bookings[i].status = "cancelled"
    /\ bookings[j].status = "booked"
    /\ SameTuple(bookings[j], bookings[i].user_id, bookings[i].slot_id,
                 bookings[i].booking_date, bookings[i].resource_type)
    /\ user[s] = bookings[j].user_id
    /\ pc[s] = "idle"
    /\ result[s] = Ok(j)

(***************************************************************************)
(* C9: cancelled and no_show are terminal: no step changes the status of a *)
(* row that is cancelled or no_show.                                        *)
(***************************************************************************)
C9_TerminalStatuses ==
  [][\A i \in Ids(bookings) :
      bookings[i].status \in {"cancelled", "no_show"}
        => bookings'[i].status = bookings[i].status]_vars

(***************************************************************************)
(* C10: a createBooking call of a signed-in user for a slot and date whose *)
(* end instant lies before the current instant fails at once with          *)
(* SlotExpired and leaves the ledger as it was.                             *)
(***************************************************************************)
CallStarts(s) ==
  /\ pc[s] = "idle"
  /\ user[s] # NoUser
  /\ pc'[s] = "lookup" \/ result'[s] # result[s]

C10_PastSlotRejected ==
  [][\A s \in Sessions :
      (CallStarts(s) /\ isPast(DateOf(args'[s]), SlotEndTime(args'[s]), now))
        => /\ pc'[s] = "idle"
           /\ result'[s] = Err("SlotExpired")
           /\ bookings' = bookings]_vars

(***************************************************************************)
(* C11: a createBooking call of a user without an active booking of the    *)
(* slot and date, whose insert would take the slot's booked units of all   *)
(* users beyond the slot's capacity, ends with SlotFull and inserts        *)
(* nothing.                                                                 *)
(***************************************************************************)
\* booked units of the call's slot and date, of all users
TakenUnits(tbl, s) == SumUnits(tbl, TakenIds(tbl, args[s], DateOf(args[s])))

\* the insert round trip of session s's call takes place in this step
Inserting(s) == pc[s] = "insert" /\ pc'[s] # "insert"

C11_FullSlotRejected ==
  [][\A s \in Sessions :
      (/\ Inserting(s)
       /\ CallActiveIds(bookings, s) = {}
       /\ TakenUnits(bookings, s) + InsertUnits(SlotRes(args[s])) > SlotCapacity(args[s]))
        => /\ resp'[s] = Err("SlotFull")
           /\ bookings' = bookings]_vars

(***************************************************************************)
(* The quota decision on its own: the laundry page of resident u1 with     *)
(* every weekly usage figure from 0 to MaxUsage in the quota row it has    *)
(* fetched, for a washer window or a dryer window.                          *)
(***************************************************************************)
UsageRows == [lav_count : 0..MaxUsage, asc_count : 0..MaxUsage]

InitQuota ==
  /\ bookings = <<>>
  /\ now = 570
  /\ InitPage
  /\ slots \in {{"L1"}, {"A1"}}
  /\ user = [s \in Sessions |-> IF s = "s1" THEN "u1" ELSE NoUser]
  /\ \E row \in UsageRows :
       /\ weekly_quotas = [u \in Users |-> IF u = "u1" THEN row ELSE ZeroQuota]
       /\ quota = [s \in Sessions |-> IF s = "s1" THEN row ELSE ZeroQuota]
  /\ weeklyBookings = [s \in Sessions |-> 0]
  /\ pc = [s \in Sessions |-> "idle"]
  /\ args = [s \in Sessions |-> "L1"]
  /\ resp = [s \in Sessions |-> NoResult]
  /\ result = [s \in Sessions |-> NoResult]
  /\ repeat = [s \in Sessions |-> FALSE]
  /\ conc = [s \in Sessions |-> {}]
  /\ disturbed = [s \in Sessions |-> FALSE]

NextQuota ==
  \/ \E s \in Sessions, slot \in AllSlots : LaundryCreateBooking(s, slot)
  \/ \E s \in Sessions : FindExisting(s)
  \/ \E s \in Sessions : InsertBooking(s, MaxRows)
  \/ \E s \in Sessions : Settle(s)
  \/ \E s \in Sessions : RefetchQuota(s)

SpecQuota == InitQuota /\ [][NextQuota]_vars

(***************************************************************************)
(* C12: the quota decision of createBooking for LAV and ASC.  Every        *)
(* request is for one unit (createBooking takes no unit count), and the    *)
(* call passes the quota check exactly when the usage figure it reads plus *)
(* that one unit is at most the limit (LAV 3, ASC 2); otherwise it is      *)
(* rejected with the quota error.                                           *)
(***************************************************************************)
\* a laundry createBooking call of session s starts in this step
LaundryCallStarts(s) == CallStarts(s) /\ SlotRes(args'[s]) \in {"LAV", "ASC"}

\* the usage figure session s's call is decided on
UsageRead(s) == CurrentCount(quota[s], SlotRes(args'[s]))

CallStep(s) == pc'[s] # pc[s] \/ result'[s] # result[s]

\* the step produces an error outcome for session s's call
YieldsError(s) ==
  \/ resp'[s] # resp[s] /\ resp'[s].kind = "error"
  \/ pc[s] = "idle" /\ result'[s] # result[s] /\ result'[s].kind = "error"

C13_ErrorsWriteNothing ==
  [][\A s \in Sessions :
      /\ YieldsError(s) => bookings' = bookings
      /\ (CallStep(s) /\ bookings' # bookings)
           => (Inserting(s) /\ pc'[s] = "return" /\ resp'[s].kind = "ok")
      /\ (pc[s] = "return" /\ pc'[s] = "idle") => result'[s] = resp[s]]_vars

\* a call of a signed-in user has ended in an error while the ledger holds rows
C13_Witness ==
  \E s \in Sessions :
    /\ user[s] # NoUser
    /\ pc[s] = "idle"
    /\ result[s].kind = "error"
    /\ bookings # <<>>

(***************************************************************************)
(* C14: a createBooking call whose insert was refused with a uniqueness    *)
(* conflict ends in success with a booked row of its tuple or in SlotFull; *)
(* the store's error 23505 never reaches the caller.                        *)
(***************************************************************************)
C14_ConflictNeverSurfaces ==
  [][\A s \in Sessions :
      (pc[s] = "race" /\ pc'[s] = "return")
        => \/ /\ resp'[s].kind = "ok"
              /\ resp'[s].id \in CallActiveIds(bookings, s)
           \/ resp'[s] = Err("SlotFull")]_vars

(***************************************************************************)
(* The gym page of resident u1 (the second session is signed out), who     *)
(* holds the bookings of windows G1 to G4 of the displayed week, the       *)
(* weekly maximum (the store as four createBooking calls leave it); the    *)
(* page has refetched.  Bookings are cancelled and windows booked again;   *)
(* with a single writer no insert is refused by the unique index.          *)
(***************************************************************************)
FullWeekRows == Append(BusyRows, NewRow("u1", "G4", DateOf("G4"), "GYM", 1))

InitRelease ==
  /\ bookings = FullWeekRows
  /\ weekly_quotas = [u \in Users |-> ZeroQuota]
  /\ now = 570
  /\ InitPage
  /\ slots = GymSlots
  /\ user = [s \in Sessions |-> IF s = "s1" THEN "u1" ELSE NoUser]
  /\ quota = [s \in Sessions |-> ZeroQuota]
  /\ weeklyBookings = [s \in Sessions |-> IF s = "s1" THEN 4 ELSE 0]
  /\ pc = [s \in Sessions |-> "idle"]
  /\ args = [s \in Sessions |-> "G1"]
  /\ resp = [s \in Sessions |-> NoResult]
  /\ result = [s \in Sessions |-> NoResult]
  /\ repeat = [s \in Sessions |-> FALSE]
  /\ conc = [s \in Sessions |-> {}]
  /\ disturbed = [s \in Sessions |-> FALSE]

NextRelease ==
  \/ \E s \in Sessions, slot \in AllSlots : GymCreateBooking(s, slot)
  \/ \E s \in Sessions : FindExisting(s)
  \/ \E s \in Sessions : InsertBooking(s, MaxReleaseRows)
  \/ \E s \in Sessions : Settle(s)
  \/ \E s \in Sessions, id \in 1..MaxReleaseRows : CancelBooking(s, id)
  \/ \E s \in Sessions : RefetchWeeklyBookings(s)

SpecRelease == InitRelease /\ [][NextRelease]_vars

(***************************************************************************)
(* C15: a cancelled booking no longer counts in any later createBooking    *)
(* decision.  Once a booking of the user has been cancelled, a call is     *)
(* rejected for the weekly limit only if the user's bookings that are      *)
(* still booked reach the limit on their own.                               *)
(***************************************************************************)
\* the user of session s has a cancelled GYM booking in the displayed week
HasReleased(tbl, u) ==
  \E i \in Ids(tbl) : /\ tbl[i].user_id = u
                      /\ tbl[i].resource_type = "GYM"
                      /\ tbl[i].status = "cancelled"

C15_CancelFreesUsage ==
  [][\A s \in Sessions :
      (/\ CallStarts(s)
       /\ HasReleased(bookings, user[s])
       /\ Cardinality(WeeklyGymIds(bookings, user[s])) < GymWeeklyLimit)
        => pc'[s] = "lookup"]_vars

(***************************************************************************)
(* C16: cancelBooking on a booking that is not booked changes nothing; in  *)
(* particular no step changes any field of a row that is already          *)
(* cancelled: it keeps its cancelled_by and cancelled_at.                  *)
(***************************************************************************)
C16_CancelledRowsUntouched ==
  [][\A i \in Ids(bookings) :
      bookings[i].status = "cancelled" => bookings'[i] = bookings[i]]_vars

(***************************************************************************)
(* C17: a booked row whose slot has ended (booking date at the slot's end  *)
(* time lies before the current instant) is never cancelled.               *)
(***************************************************************************)
RowIsPast(row, clock) == isPast(row.booking_date, SlotEndTime(row.slot_id), clock)

C17_PastBookingNotCancelled ==
  [][\A i \in Ids(bookings) :
      (bookings[i].status = "booked" /\ RowIsPast(bookings[i], now))
        => bookings'[i].status # "cancelled"]_vars

(***************************************************************************)
(* C18: cancelBooking by a user who is neither the owner of a booked       *)
(* booking nor staff or admin ends in an Unauthorized error, never in      *)
(* success.                                                                 *)
(***************************************************************************)
C18_UnauthorizedCancelFails ==
  \A s \in Sessions, i \in Ids(bookings) :
    (bookings[i].status = "booked" /\ ~CanUpdate(user[s], bookings[i]))
      => CancelOutcome(bookings, user[s], i) = Err("Unauthorized")

(***************************************************************************)
(* C19: the weekly usage figure a laundry createBooking call compares with *)
(* the limit equals the units of the user's booked rows of that resource   *)
(* type in the booking date's ISO week.                                     *)
(***************************************************************************)
\* units of the user's booked rows of the call's resource type and week
LedgerUsage(tbl, s, slot) ==
  SumUnits(tbl, WeekIds(tbl, user[s], SlotRes(slot), WeekOf(DateOf(slot))))

C19_UsageMatchesLedger ==
  [][\A s \in Sessions :
      LaundryCallStarts(s) => UsageRead(s) = LedgerUsage(bookings, s, args'[s])]_vars

(***************************************************************************)
(* C20: a createBooking call whose tuple already has a booked row is not   *)
(* stopped by the quota or limit check: it goes on to the lookup, which    *)
(* returns that row and writes nothing.                                     *)
(***************************************************************************)
C20_IdempotentHitFirst ==
  [][\A s \in Sessions :
      /\ (CallStarts(s) /\ CallActiveIds(bookings, s)' # {}) => pc'[s] = "lookup"
      /\ (pc[s] = "lookup" /\ pc'[s] # "lookup" /\ CallActiveIds(bookings, s) # {})
           => /\ resp'[s].kind = "ok"
              /\ resp'[s].id \in CallActiveIds(bookings, s)
              /\ bookings' = bookings]_vars

(***************************************************************************)
(* C21: every stored booking has units in {1,2} if it is LAV and units 1   *)
(* if it is ASC or GYM.  createBooking takes no unit count; the units it   *)
(* sends (or leaves to the column default) are always valid, so no insert  *)
(* is ever refused by bookings_units_check and nothing invalid is stored.  *)
(***************************************************************************)
ValidUnits(row) ==
  IF row.resource_type = "LAV" THEN row.units \in {1, 2} ELSE row.units = 1

C22_GymWeeklyMax ==
  \A u \in Users, d \in Dates :
    Cardinality(WeekIds(bookings, u, "GYM", WeekOf(d))) <= 4

(***************************************************************************)
(* C23: a cancelled booking carries the time of the cancelBooking call and *)
(* the identity of its caller, a signed-in user allowed to cancel it;      *)
(* bookings that are not cancelled carry neither.                           *)
(***************************************************************************)
\* the row records who cancelled it and when, exactly if it is cancelled
CancelRecorded(row) ==
  IF row.status = "cancelled"
  THEN row.cancelled_by \in Users /\ row.cancelled_at # NoTime
  ELSE row.cancelled_by = NoUser /\ row.cancelled_at = NoTime

VisibleIds(tbl, u) ==
  {i \in Ids(tbl) : u # NoUser /\ (tbl[i].user_id = u \/ IsStaff(u))}

\* getBookingsForSlot on the fetched rows: booked rows of the slot and date
SlotBookings(tbl, u, slot) ==
  {i \in VisibleIds(tbl, u) : /\ tbl[i].resource_type = SlotRes(slot)
                              /\ tbl[i].status = "booked"
                              /\ tbl[i].slot_id = slot
                              /\ tbl[i].booking_date = DateOf(slot)}

\* capacity as the pages have it
PageCapacity(res) == IF res = "LAV" THEN 2 ELSE IF res = "ASC" THEN 1 ELSE 6

isFull(tbl, u, slot) == Cardinality(SlotBookings(tbl, u, slot)) >= PageCapacity(SlotRes(slot))

(***************************************************************************)
(* C24: a slot and date is reported full to a signed-in viewer exactly     *)
(* when the units of all users' booked rows of that slot and date reach    *)
(* the capacity of the slot's row.                                          *)
(***************************************************************************)
C24_FullVerdict ==
  \A s \in Sessions, slot \in slots :
    user[s] # NoUser
      => (isFull(bookings, user[s], slot)
            <=> SumUnits(bookings, TakenIds(bookings, slot, DateOf(slot))) >= SlotCapacity(slot))

(***************************************************************************)
(* C25: a createBooking call that inserts a new booking stores one unit    *)
(* (createBooking takes no unit count), so the booked units of the slot    *)
(* and date and the units of the owner's booked rows of that resource type *)
(* and week grow by exactly one.                                            *)
(***************************************************************************)
\* the insert of session s's call adds a row in this step
InsertsRow(s) == Inserting(s) /\ Len(bookings') = Len(bookings) + 1

PageOf(res) == IF res = "GYM" THEN "Gym" ELSE "Laundry"

\* the queries a page decides on: slot occupancy, usage, slot catalog
PageQueries(page) ==
  IF page = "Laundry"
  THEN {[view |-> "occupancy", key |-> <<"bookings", "selectedWeek", "selectedResource">>],
        [view |-> "usage",     key |-> <<"quota", "user.id", "selectedWeek">>],
        [view |-> "catalog",   key |-> <<"slots", "selectedResource">>]}
  ELSE {[view |-> "occupancy", key |-> <<"gymBookings", "selectedWeek">>],
        [view |-> "usage",     key |-> <<"weeklyGymBookings", "user.id", "selectedWeek">>],
        [view |-> "catalog",   key |-> <<"gymSlots">>]}

onSuccessKeysNoCatalog(page, mutation) ==
  IF page = "Laundry"
  THEN {<<"bookings">>, <<"quota">>}
  ELSE {<<"gymBookings">>, <<"weeklyGymBookings">>}

\* the keys passed to invalidateQueries by onSuccess of createBooking and of
\* cancelBooking
onSuccessKeys(page, mutation) ==
  IF page = "Laundry"
  THEN {<<"bookings">>, <<"quota">>, <<"slots">>}
  ELSE {<<"gymBookings">>, <<"weeklyGymBookings">>, <<"gymSlots">>}

\* invalidateQueries matches every query whose key starts with the given key
KeyMatches(prefix, key) ==
  /\ Len(prefix) <= Len(key)
  /\ \A i \in 1..Len(prefix) : prefix[i] = key[i]

invalidateQueries(page, keys) ==
  {q \in PageQueries(page) : \E k \in keys : KeyMatches(k, q.key)}

\* the views invalidated when the mutation of a page has succeeded
InvalidatedViews(page, mutation) ==
  {q.view : q \in invalidateQueries(page, onSuccessKeys(page, mutation))}

(***************************************************************************)
(* C26: every createBooking call that settles with a booking (inserted,    *)
(* idempotent hit or resolved race) and every cancelBooking that cancels a *)
(* row invalidates the three views of its page: slot occupancy, usage and  *)
(* slot catalog.                                                            *)
(***************************************************************************)
C26_SuccessInvalidatesViews ==
  [][/\ \A s \in Sessions :
          (pc[s] = "return" /\ pc'[s] = "idle" /\ result'[s].kind = "ok")
            => InvalidatedViews(PageOf(SlotRes(args[s])), "createBooking")
                 = {"occupancy", "usage", "catalog"}
     /\ \A i \in Ids(bookings) :
          (bookings[i].status = "booked" /\ bookings'[i].status = "cancelled")
            => InvalidatedViews(PageOf(bookings[i].resource_type), "cancelBooking")
                 = {"occupancy", "usage", "catalog"}]_vars

\* a call has settled with another row than the one it would have inserted
\* (idempotent hit or resolved race) and a booking has been cancelled
C26_Witness ==
  /\ \E s \in Sessions :
       /\ pc[s] = "idle"
       /\ result[s].kind = "ok"
       /\ result[s].id \in Ids(bookings)
       /\ result[s].id < Len(bookings)
  /\ \E i \in Ids(bookings) : bookings[i].status = "cancelled"

(***************************************************************************)
(* The booking grid: the daily schedule of the slot generator and the      *)
(* "past" verdict of a cell.  A time of day is a string 'HH:MM', written   *)
(* as the sequence of its characters; a Date is a record of local fields.  *)
(***************************************************************************)
HM(h1, h2, m1, m2) == <<h1, h2, ":", m1, m2>>

dailySlotsWithGap ==
  << [start |-> HM("0","8","0","0"), end |-> HM("0","9","3","0"), id |-> "s_0800"],
     [start |-> HM("0","9","3","0"), end |-> HM("1","1","0","0"), id |-> "s_0930"],
     [start |-> HM("1","1","0","0"), end |-> HM("1","2","3","0"), id |-> "s_1100"],
     [start |-> HM("1","2","3","0"), end |-> HM("1","4","0","0"), id |-> "s_1230"],
     [start |-> HM("1","4","0","0"), end |-> HM("1","5","3","0"), id |-> "s_1400"],
     [start |-> HM("1","5","3","0"), end |-> HM("1","7","0","0"), id |-> "s_1530"],
     [start |-> HM("1","7","0","0"), end |-> HM("1","8","3","0"), id |-> "s_1700"],
     [start |-> HM("1","8","3","0"), end |-> HM("2","0","0","0"), id |-> "s_1830"],
     [start |-> HM("2","0","3","0"), end |-> HM("2","1","3","0"), id |-> "s_2000"],
     [start |-> HM("2","1","3","0"), end |-> HM("2","3","0","0"), id |-> "s_2130"] >>

dailySlots90EndAt23 ==
  << [start |-> HM("0","8","0","0"), end |-> HM("0","9","3","0"), id |-> "s_0800"],
     [start |-> HM("0","9","3","0"), end |-> HM("1","1","0","0"), id |-> "s_0930"],
     [start |-> HM("1","1","0","0"), end |-> HM("1","2","3","0"), id |-> "s_1100"],
     [start |-> HM("1","2","3","0"), end |-> HM("1","4","0","0"), id |-> "s_1230"],
     [start |-> HM("1","4","0","0"), end |-> HM("1","5","3","0"), id |-> "s_1400"],
     [start |-> HM("1","5","3","0"), end |-> HM("1","7","0","0"), id |-> "s_1530"],
     [start |-> HM("1","7","0","0"), end |-> HM("1","8","3","0"), id |-> "s_1700"],
     [start |-> HM("1","8","3","0"), end |-> HM("2","0","0","0"), id |-> "s_1830"],
     [start |-> HM("2","0","0","0"), end |-> HM("2","1","3","0"), id |-> "s_2000"],
     [start |-> HM("2","1","3","0"), end |-> HM("2","3","0","0"), id |-> "s_2130"] >>

\* const timeSlots = dailySlots90EndAt23()
timeSlots == dailySlots90EndAt23

Digit(c) ==
  CASE c = "0" -> 0 [] c = "1" -> 1 [] c = "2" -> 2 [] c = "3" -> 3 [] c = "4" -> 4
    [] c = "5" -> 5 [] c = "6" -> 6 [] c = "7" -> 7 [] c = "8" -> 8 [] c = "9" -> 9

\* Number(str) of a string of decimal digits
RECURSIVE Number(_)
Number(str) ==
  IF str = <<>> THEN 0
  ELSE 10 * Number(SubSeq(str, 1, Len(str) - 1)) + Digit(str[Len(str)])

\* str.split(':')
RECURSIVE split(_)
split(str) ==
  LET colons == {i \in 1..Len(str) : str[i] = ":"}
  IN IF colons = {} THEN <<str>>
     ELSE LET i == CHOOSE j \in colons : \A k \in colons : j <= k
          IN <<SubSeq(str, 1, i - 1)>> \o split(SubSeq(str, i + 1, Len(str)))

\* addDays(selectedWeek, i): local midnight of the day
DayDate(day) == [day |-> day, hours |-> 0, minutes |-> 0, seconds |-> 0]

\* new Date() when the clock shows minute clock
ClockDate(clock) ==
  [day |-> clock \div 1440, hours |-> (clock % 1440) \div 60, minutes |-> clock % 60,
   seconds |-> 0]

setHours(date, hours, minutes, seconds) ==
  [date EXCEPT !.hours = hours, !.minutes = minutes, !.seconds = seconds]

\* the instant of a Date, in seconds
valueOf(date) == ((date.day * 24 + date.hours) * 60 + date.minutes) * 60 + date.seconds

isSlotPastOrNow(date, endTime, clock) ==
  LET parts == split(endTime)
      slotDateTime == setHours(date, Number(parts[1]), Number(parts[2]), 0)
  IN valueOf(slotDateTime) <= valueOf(clock)

isSlotPast(date, endTime, clock) ==
  LET parts == split(endTime)
      slotDateTime == setHours(date, Number(parts[1]), Number(parts[2]), 0)
  IN valueOf(slotDateTime) < valueOf(clock)

\* instants the clock shows while the grid is on screen: around the end of
\* Monday's first and last window and of Tuesday's first window
GridClock == {569, 570, 571, 1379, 1380, 1381, 2010, 2011}

\* the gym page renders the cell of a day of the displayed week and a window
\* of timeSlots (for a cell whose slot row exists; which rows exist is
\* deployment data, so every day and window is drawn)
RenderGymCell(i, w) ==
  /\ cell' = [page |-> "Gym", day |-> selectedWeek + i, window |-> w, at |-> now,
              past |-> isSlotPast(DayDate(selectedWeek + i), timeSlots[w].end, ClockDate(now))]
  /\ UNCHANGED <<bookings, slots, route, weekly_quotas, now, user, quota, weeklyBookings,
                 pc, args, resp, result, repeat, conc, disturbed, selectedWeek, quotaKey>>

\* the laundry page renders the cell of a slot row of the catalog
RenderLaundryCell(slot) ==
  /\ slot \in slots
  /\ cell' = [page |-> "Laundry", day |-> selectedWeek + DateOf(slot),
              window |-> SlotWindow(slot), at |-> now,
              past |-> isPast(selectedWeek + DateOf(slot), SlotEndTime(slot), now)]
  /\ UNCHANGED <<bookings, slots, route, weekly_quotas, now, user, quota, weeklyBookings,
                 pc, args, resp, result, repeat, conc, disturbed, selectedWeek, quotaKey>>

ClockAdvances ==
  /\ \E t \in GridClock : t > now /\ now' = t
  /\ UNCHANGED <<bookings, slots, route, weekly_quotas, user, quota, weeklyBookings,
                 pc, args, resp, result, repeat, conc, disturbed, selectedWeek, cell, quotaKey>>

InitGrid ==
  /\ bookings = <<>>
  /\ weekly_quotas = [u \in Users |-> ZeroQuota]
  /\ now = 0
  /\ InitPage
  /\ InitSessions
  /\ slots = LavSlots \cup AscSlots
  /\ user = [s \in Sessions |-> IF s = "s1" THEN "u1" ELSE NoUser]

NextGrid ==
  \/ \E i \in 0..6, w \in 1..Len(timeSlots) : RenderGymCell(i, w)
  \/ \E slot \in AllSlots : RenderLaundryCell(slot)
  \/ ClockAdvances

SpecGrid == InitGrid /\ [][NextGrid]_vars

\* minutes since Monday 00:00 of the displayed week at which window w of the
\* day ends: windows of 90 minutes from 08:00
EndInstant(day, w) == day * 1440 + 480 + 90 * w

(***************************************************************************)
(* C27: the past verdict of a cell is true exactly when the instant (date  *)
(* at end time) is strictly earlier than the clock instant it was computed *)
(* at: a window ending exactly at the clock instant is not past, and the   *)
(* verdict is a function of date, end time and clock.                       *)
(***************************************************************************)
C27_PastIffStrictlyEarlier ==
  cell.page # "none" => (cell.past <=> EndInstant(cell.day, cell.window) < cell.at)

\* a gym cell was rendered at the very instant its window ends
C27_Witness ==
  /\ cell.page = "Gym"
  /\ EndInstant(cell.day, cell.window) = cell.at
  /\ ~cell.past

(***************************************************************************)
(* C30: the daily schedule of the slot generator has exactly 10 windows of *)
(* 90 minutes, the first starting at 08:00, the last ending at 23:00, each *)
(* starting when the one before ends, with pairwise distinct ids; every    *)
(* cell the gym page renders is a window of this schedule.                  *)
(***************************************************************************)
\* minutes since midnight of a time 'HH:MM'
MinuteOfDay(time) == LET parts == split(time) IN Number(parts[1]) * 60 + Number(parts[2])

EpochYear == 2024

IsLeapYear(y) == (y % 4 = 0 /\ y % 100 # 0) \/ y % 400 = 0

\* day number of 1 January of year y, y >= EpochYear
RECURSIVE YearStart(_)
YearStart(y) ==
  IF y <= EpochYear THEN 0
  ELSE YearStart(y - 1) + (IF IsLeapYear(y - 1) THEN 366 ELSE 365)

\* calendar year of a day
getYear(day) ==
  CHOOSE y \in EpochYear..(EpochYear + 5) : YearStart(y) <= day /\ day < YearStart(y + 1)

\* Monday of the day's week (weekStartsOn: 1)
startOfWeek(day) == day - (day % 7)

\* ISO week-numbering year: the year whose week 1 (the week of 4 January)
\* has begun and whose successor's week 1 has not
getISOWeekYear(day) ==
  LET year == getYear(day)
  IN IF day >= startOfWeek(YearStart(year + 1) + 3) THEN year + 1
     ELSE IF day >= startOfWeek(YearStart(year) + 3) THEN year
     ELSE year - 1

startOfISOWeekYear(day) == startOfWeek(YearStart(getISOWeekYear(day)) + 3)

getISOWeek(day) == (startOfWeek(day) - startOfISOWeekYear(day)) \div 7 + 1

addWeeks(day, n) == day + 7 * n

\* week_number and year the quota query filters on when the page shows the
\* week beginning at monday
QuotaFilter(monday) == [week_number |-> getISOWeek(monday), year |-> getYear(monday)]

\* the usage key of a booking date: the page books a date from the grid of
\* the date's own week
UsageKey(date) == QuotaFilter(startOfWeek(date))

ShowNextWeek ==
  /\ selectedWeek < addWeeks(0, MaxShownWeek)
  /\ selectedWeek' = addWeeks(selectedWeek, 1)
  /\ UNCHANGED <<bookings, slots, route, weekly_quotas, now, user, quota, weeklyBookings,
                 pc, args, resp, result, repeat, conc, disturbed, cell, quotaKey>>

ShowPreviousWeek ==
  /\ selectedWeek > 0
  /\ selectedWeek' = addWeeks(selectedWeek, -1)
  /\ UNCHANGED <<bookings, slots, route, weekly_quotas, now, user, quota, weeklyBookings,
                 pc, args, resp, result, repeat, conc, disturbed, cell, quotaKey>>

\* queryFn of the 'quota' query runs for the displayed week
FetchQuota(s) ==
  /\ user[s] # NoUser
  /\ quotaKey' = [selectedWeek |-> selectedWeek,
                  week_number |-> QuotaFilter(selectedWeek).week_number,
                  year |-> QuotaFilter(selectedWeek).year]
  /\ UNCHANGED <<bookings, slots, route, weekly_quotas, now, user, quota, weeklyBookings,
                 pc, args, resp, result, repeat, conc, disturbed, selectedWeek, cell>>

InitCalendar ==
  /\ bookings = <<>>
  /\ weekly_quotas = [u \in Users |-> ZeroQuota]
  /\ now = 0
  /\ InitPage
  /\ InitSessions
  /\ slots = LavSlots \cup AscSlots
  /\ user = [s \in Sessions |-> IF s = "s1" THEN "u1" ELSE NoUser]

NextCalendar ==
  \/ ShowNextWeek
  \/ ShowPreviousWeek
  \/ \E s \in Sessions : FetchQuota(s)

SpecCalendar == InitCalendar /\ [][NextCalendar]_vars

\* the booking dates of the weeks the page can show
BookingDates == 0..(addWeeks(0, MaxShownWeek) + 6)

(***************************************************************************)
(* C28: the key under which weekly usage is looked up identifies the ISO   *)
(* week of the booking date: a booking date has the key the quota query    *)
(* asked for exactly when it lies in the Monday-to-Sunday week the query   *)
(* was made for.                                                            *)
(***************************************************************************)
C28_UsageKeyIdentifiesWeek ==
  quotaKey # NoKey
    => \A date \in BookingDates :
         (UsageKey(date) = [week_number |-> quotaKey.week_number, year |-> quotaKey.year])
           <=> startOfWeek(date) = quotaKey.selectedWeek

(***************************************************************************)
(* C29: a createBooking call makes at most one lookup, one insert attempt  *)
(* and one lookup after a conflict, in this order, and then settles: it    *)
(* never goes back to an earlier round trip and never repeats the insert,  *)
(* whatever the other session does in between.                              *)
(***************************************************************************)
\* position of a round trip in the mutationFn
Rank(p) ==
  CASE p = "idle" -> 0 [] p = "lookup" -> 1 [] p = "insert" -> 2 [] p = "race" -> 3
    [] p = "return" -> 4

C29_BoundedRoundTrips ==
  [][\A s \in Sessions :
      pc'[s] # pc[s]
        => IF pc'[s] = "idle" THEN pc[s] = "return" ELSE Rank(pc'[s]) > Rank(pc[s])]_vars

\* a call went through all three round trips while the other session
\* cancelled the conflicting booking: it ends with the conflict error
C29_Witness ==
  \E s \in Sessions :
    /\ pc[s] = "return"
    /\ resp[s] = Err("23505")
    /\ disturbed[s]

(***************************************************************************)
(* The rows of public.slots after the migration: the default slots seed.   *)
(***************************************************************************)
\* start_time and end_time of the seeded windows
SeedTimes ==
  << <<HM("0","8","0","0"), HM("0","9","3","0")>>, <<HM("0","9","3","0"), HM("1","1","0","0")>>,
     <<HM("1","1","0","0"), HM("1","2","3","0")>>, <<HM("1","2","3","0"), HM("1","4","0","0")>>,
     <<HM("1","4","0","0"), HM("1","5","3","0")>>, <<HM("1","5","3","0"), HM("1","7","0","0")>>,
     <<HM("1","7","0","0"), HM("1","8","3","0")>>, <<HM("1","8","3","0"), HM("2","0","0","0")>>,
     <<HM("2","0","0","0"), HM("2","1","3","0")>>, <<HM("2","1","3","0"), HM("2","3","0","0")>> >>

\* INSERT INTO public.slots: Monday (day_of_week 1) LAV with capacity 2 and
\* Monday ASC with capacity 1; is_active takes its default
SeedSlots ==
  {[resource_type |-> r, day_of_week |-> 1, start_time |-> SeedTimes[w][1],
    end_time |-> SeedTimes[w][2], capacity |-> IF r = "LAV" THEN 2 ELSE 1, is_active |-> TRUE] :
     r \in {"LAV", "ASC"}, w \in 1..Len(SeedTimes)}

\* the slots query of a page and the grid's slots.find for a day and a window
FindSlots(rows, res, dayOfWeek, w) ==
  {row \in rows : /\ row.resource_type = res
                  /\ row.is_active
                  /\ row.day_of_week = dayOfWeek
                  /\ MinuteOfDay(row.start_time) = MinuteOfDay(timeSlots[w].start)
                  /\ MinuteOfDay(row.end_time) = MinuteOfDay(timeSlots[w].end)}

\* day.getDay() of a day number: 0 = Sunday, day 0 is a Monday
getDay(day) == (day + 1) % 7

(***************************************************************************)
(* C31: for every resource type and every day of the week the catalog      *)
(* holds exactly one active slot for each of the 10 daily windows, with    *)
(* capacity 2 for LAV, 1 for ASC and 6 for GYM; in particular the cell the *)
(* page rendered last resolves to one slot.                                 *)
(***************************************************************************)
C31_CatalogComplete ==
  /\ \A res \in {"LAV", "ASC", "GYM"}, dayOfWeek \in 0..6, w \in 1..Len(timeSlots) :
       /\ Cardinality(FindSlots(SeedSlots, res, dayOfWeek, w)) = 1
       /\ \A row \in FindSlots(SeedSlots, res, dayOfWeek, w) : row.capacity = PageCapacity(res)
  /\ cell.page = "Gym"
       => Cardinality(FindSlots(SeedSlots, "GYM", getDay(cell.day), cell.window)) = 1

(***************************************************************************)
(* C32: a createBooking call of a session without a user fails with 'Not   *)
(* authenticated' at once: the session never enters a store round trip     *)
(* and the step that delivers the error leaves the ledger as it was.       *)
(***************************************************************************)
C32_SignedOutRejected ==
  [][\A s \in Sessions :
      user[s] = NoUser
        => /\ pc'[s] = "idle"
           /\ resp'[s] = NoResult
           /\ result'[s] # result[s]
                => /\ result'[s] = Err("Not authenticated")
                   /\ bookings' = bookings]_vars

\* a signed-out session's call was rejected while the ledger holds a booking
C32_Witness ==
  \E s \in Sessions :
    /\ user[s] = NoUser
    /\ pc[s] = "idle"
    /\ result[s] = Err("Not authenticated")
    /\ bookings # <<>>

(***************************************************************************)
(* C33: every booking inserted by a user without the staff or admin role   *)
(* is owned by that user: the row createBooking inserts carries the id of  *)
(* the session's user and passes the insert policies of bookings.           *)
(***************************************************************************)
\* "Users can create own bookings" WITH CHECK, "Staff can manage all bookings"
CanInsert(u, row) == u # NoUser /\ (row.user_id = u \/ IsStaff(u))

C33_ResidentInsertsOwn ==
  [][\A s \in Sessions :
      InsertsRow(s)
        => /\ CanInsert(user[s], bookings'[Len(bookings')])
           /\ ~IsStaff(user[s]) => bookings'[Len(bookings')].user_id = user[s]]_vars

\* resident u1 has inserted a booking next to one of staff member u2
C33_Witness ==
  /\ \E s \in Sessions :
       /\ user[s] = "u1"
       /\ pc[s] = "return"
       /\ resp[s] = Ok(Len(bookings))
       /\ bookings[Len(bookings)].user_id = "u1"
  /\ \E i \in Ids(bookings) : bookings[i].user_id = "u2"

(***************************************************************************)
(* C34: a cancelBooking step changes at most the status, cancelled_by and  *)
(* cancelled_at of the one row it names: the other rows and the owner,     *)
(* slot, date, resource type and units of that row stay as they were, and  *)
(* no row is added or removed.                                              *)
(***************************************************************************)
\* row i is written by a cancelBooking update in this step
CancelWrites(i) ==
  /\ i \in Ids(bookings)
  /\ i \in Ids(bookings')
  /\ bookings'[i] # bookings[i]
  /\ bookings'[i].status = "cancelled"

C34_CancelFrame ==
  [][\A i \in Ids(bookings) :
      CancelWrites(i)
        => /\ Len(bookings') = Len(bookings)
           /\ \A j \in Ids(bookings) : j # i => bookings'[j] = bookings[j]
           /\ bookings'[i].user_id = bookings[i].user_id
           /\ bookings'[i].slot_id = bookings[i].slot_id
           /\ bookings'[i].booking_date = bookings[i].booking_date
           /\ bookings'[i].resource_type = bookings[i].resource_type
           /\ bookings'[i].units = bookings[i].units]_vars

\* one booking of a slot was cancelled and another booking of the same slot
\* is still booked
C34_Witness ==
  \E i, j \in Ids(bookings) :
    /\ i # j
    /\ bookings[i].slot_id = bookings[j].slot_id
    /\ bookings[i].status = "cancelled"
    /\ bookings[j].status = "booked"
    /\ bookings[j].user_id # bookings[i].user_id

(***************************************************************************)
(* C35: the insert of a createBooking call adds exactly one row, booked,   *)
(* owned by the caller, for the slot, date and resource type of the call,  *)
(* and leaves every existing row as it was; every other step of a call     *)
(* (rejection, lookup that finds the booking, refused insert, lookup after *)
(* a conflict, settling) leaves the ledger unchanged.                       *)
(***************************************************************************)
C35_CreateFrame ==
  [][\A s \in Sessions :
      /\ InsertsRow(s)
           => /\ Len(bookings') = Len(bookings) + 1
              /\ \A i \in Ids(bookings) : bookings'[i] = bookings[i]
              /\ bookings'[Len(bookings')].status = "booked"
              /\ SameTuple(bookings'[Len(bookings')], user[s], args[s], DateOf(args[s]),
                           SlotRes(args[s]))
      /\ (CallStep(s) /\ ~InsertsRow(s)) => bookings' = bookings]_vars

\* a repeated call has found its booking (idempotent hit) after another
\* booking was inserted
C35_Witness ==
  \E s \in Sessions :
    /\ pc[s] = "return"
    /\ repeat[s]
    /\ resp[s].kind = "ok"
    /\ resp[s].id \in Ids(bookings)
    /\ resp[s].id < Len(bookings)
    /\ bookings[resp[s].id].status = "booked"

(***************************************************************************)
(* ProtectedRoute: the guard around a protected page.  route holds the     *)
(* guard's inputs (requiredRole, useAuth's user and loading, the data of   *)
(* the 'userRole' query), the role row of the account in user_roles, what  *)
(* the last render returned and where the router is.  A render follows     *)
(* every change of an input; the effects run after the render.             *)
(***************************************************************************)
Roles == {"resident", "staff", "admin"}

\* roleHierarchy[role] ?? 0
roleHierarchy(role) ==
  CASE role = "resident" -> 0 [] role = "staff" -> 1 [] role = "admin" -> 2 [] OTHER -> 0

\* what the component returns
RenderGuard(r) ==
  IF r.loading \/ (r.requiredRole # "none" /\ r.userRole = "undefined") THEN "Loading"
  ELSE IF r.user = NoUser THEN "null"
  ELSE "children"

Rendered(r) == [r EXCEPT !.shows = RenderGuard(r)]

RouteFrame ==
  UNCHANGED <<bookings, slots, weekly_quotas, now, user, quota, weeklyBookings,
              pc, args, resp, result, repeat, conc, disturbed, selectedWeek, cell, quotaKey>>

\* useAuth finishes loading, with or without a signed-in user
AuthResolves(u) ==
  /\ route.location = "protected"
  /\ route.loading
  /\ route' = Rendered([route EXCEPT !.loading = FALSE, !.user = u])
  /\ RouteFrame

\* queryFn of 'userRole' delivers the role of the account's user_roles row
RoleQueryResolves ==
  /\ route.location = "protected"
  /\ route.user # NoUser
  /\ route.userRole = "undefined"
  /\ route.role # "none"
  /\ route' = Rendered([route EXCEPT !.userRole = route.role])
  /\ RouteFrame

\* first effect: no user once loading is over
NavigateToAuth ==
  /\ route.location = "protected"
  /\ ~route.loading
  /\ route.user = NoUser
  /\ route' = [route EXCEPT !.location = "/auth", !.shows = "unmounted"]
  /\ RouteFrame

\* second effect: the user's level is below the required level
NavigateHome ==
  /\ route.location = "protected"
  /\ route.requiredRole # "none"
  /\ route.userRole # "undefined"
  /\ roleHierarchy(route.userRole) < roleHierarchy(route.requiredRole)
  /\ route' = [route EXCEPT !.location = "/", !.shows = "unmounted"]
  /\ RouteFrame

\* the session ends while the route is mounted; the 'userRole' query is
\* disabled without a user and has no data
SignOut ==
  /\ route.location = "protected"
  /\ route.user # NoUser
  /\ route' = Rendered([route EXCEPT !.user = NoUser, !.userRole = "undefined"])
  /\ RouteFrame

\* the router mounts a protected route again; the data of 'userRole' is
\* still in the query cache
OpenRoute(required) ==
  /\ route.location # "protected"
  /\ route' = Rendered([route EXCEPT !.location = "protected", !.requiredRole = required])
  /\ RouteFrame

\* a user signs in on the /auth page
SignIn(u) ==
  /\ route.location = "/auth"
  /\ route.user = NoUser
  /\ route' = [route EXCEPT !.user = u, !.userRole = "undefined"]
  /\ RouteFrame

InitRoute ==
  /\ bookings = <<>>
  /\ weekly_quotas = [u \in Users |-> ZeroQuota]
  /\ now = 0
  /\ selectedWeek = 0
  /\ cell = NoCell
  /\ quotaKey = NoKey
  /\ InitSessions
  /\ slots = LavSlots \cup AscSlots
  /\ user = [s \in Sessions |-> NoUser]
  /\ \E required \in Roles \cup {"none"}, role \in Roles \cup {"none"} :
       route = Rendered([requiredRole |-> required, role |-> role, loading |-> TRUE,
                         user |-> NoUser, userRole |-> "undefined", shows |-> "unmounted",
                         location |-> "protected"])

NextRoute ==
  \/ \E u \in Users \cup {NoUser} : AuthResolves(u)
  \/ RoleQueryResolves
  \/ NavigateToAuth
  \/ NavigateHome
  \/ SignOut
  \/ \E required \in Roles \cup {"none"} : OpenRoute(required)
  \/ \E u \in Users : SignIn(u)

SpecRoute == InitRoute /\ [][NextRoute]_vars

(***************************************************************************)
(* C36: the guard shows the protected children only if a user is present   *)
(* and, when the route requires a role, the level of the user's role is at *)
(* least the required level.                                                *)
(***************************************************************************)
C36_GuardHidesChildren ==
  route.shows = "children"
    => /\ route.user # NoUser
       /\ route.requiredRole # "none"
            => roleHierarchy(route.userRole) >= roleHierarchy(route.requiredRole)

(***************************************************************************)
(* The one-time duplicate cleanup of the migration, run on a ledger from   *)
(* before the unique index.  Here a row also carries its id and created_at.*)
(***************************************************************************)
StoredRow(id, u, slot, status, created) ==
  [id |-> id, user_id |-> u, slot_id |-> slot, booking_date |-> DateOf(slot),
   resource_type |-> SlotRes(slot), units |-> DefaultUnits, status |-> status,
   cancelled_by |-> IF status = "cancelled" THEN u ELSE NoUser,
   cancelled_at |-> IF status = "cancelled" THEN 0 ELSE NoTime, created_at |-> created]

\* ledgers without the index: any rows, duplicates of a tuple included
OldLedgers ==
  UNION {{tbl \in [1..n -> [user_id : Users, slot_id : {"L1", "A1"},
                            status : {"booked", "cancelled"}, created_at : 1..2]] : TRUE} :
           n \in 0..MaxCleanupRows}

\* FROM public.bookings WHERE status = 'booked'
BookedIds(tbl) == {i \in Ids(tbl) : tbl[i].status = "booked"}

\* PARTITION BY user_id, slot_id, booking_date, resource_type
PartitionOf(tbl, i) ==
  {j \in BookedIds(tbl) : SameTuple(tbl[j], tbl[i].user_id, tbl[i].slot_id,
                                    tbl[i].booking_date, tbl[i].resource_type)}

RanksFirstAscending(tbl, j) ==
  \A m \in PartitionOf(tbl, j) : tbl[m].created_at >= tbl[j].created_at

\* ORDER BY created_at DESC: a row that may get rn = 1 in its partition
RanksFirst(tbl, j) ==
  \A m \in PartitionOf(tbl, j) : tbl[m].created_at <= tbl[j].created_at

\* the sets of rows with rn = 1 that ROW_NUMBER may produce: one row of every
\* partition, ranking first; equal created_at are ordered either way
RowNumberOne(tbl) ==
  {K \in SUBSET BookedIds(tbl) :
     /\ \A i \in BookedIds(tbl) : Cardinality(K \cap PartitionOf(tbl, i)) = 1
     /\ \A j \in K : RanksFirst(tbl, j)}

\* the rows of tbl at the positions keep, in order
RECURSIVE RowsAt(_, _)
RowsAt(tbl, keep) ==
  IF tbl = <<>> THEN <<>>
  ELSE RowsAt(SubSeq(tbl, 1, Len(tbl) - 1), keep)
         \o (IF Len(tbl) \in keep THEN <<tbl[Len(tbl)]>> ELSE <<>>)

\* DELETE FROM public.bookings WHERE id IN (SELECT id FROM duplicates WHERE rn > 1)
CleanupDuplicates ==
  /\ \E K \in RowNumberOne(bookings) :
       /\ BookedIds(bookings) \ K # {}
       /\ bookings' = RowsAt(bookings, Ids(bookings) \ (BookedIds(bookings) \ K))
  /\ UNCHANGED <<slots, route, weekly_quotas, now, user, quota, weeklyBookings,
                 pc, args, resp, result, repeat, conc, disturbed, selectedWeek, cell, quotaKey>>

InitCleanup ==
  /\ \E tbl \in OldLedgers :
       bookings = [i \in 1..Len(tbl) |->
                     StoredRow(i, tbl[i].user_id, tbl[i].slot_id, tbl[i].status, tbl[i].created_at)]
  /\ weekly_quotas = [u \in Users |-> ZeroQuota]
  /\ now = 570
  /\ InitPage
  /\ InitSessions
  /\ slots = {"L1", "A1"}
  /\ user = [s \in Sessions |-> NoUser]

NextCleanup == CleanupDuplicates

SpecCleanup == InitCleanup /\ [][NextCleanup]_vars

\* ids of the rows of a ledger
RowIds(tbl) == {tbl[i].id : i \in Ids(tbl)}

\* CREATE UNIQUE INDEX uniq_active_booking_per_slot succeeds on the ledger
IndexCreatable(tbl) ==
  \A i, j \in BookedIds(tbl) : j \in PartitionOf(tbl, i) => i = j

(***************************************************************************)
(* C37: the duplicate cleanup keeps, of the booked rows of every tuple,    *)
(* exactly one, one with the greatest created_at; it deletes no row that   *)
(* is not booked and no row that is the only booked one of its tuple, and  *)
(* changes no row; afterwards no tuple has two booked rows, so the unique  *)
(* index can be created.                                                    *)
(***************************************************************************)
C37_CleanupKeepsLatest ==
  [][bookings' # bookings
      => /\ \A i \in BookedIds(bookings) :
              \E j \in PartitionOf(bookings, i) :
                /\ PartitionOf(bookings, i) \cap {m \in Ids(bookings) : bookings[m].id \in RowIds(bookings')}
                     = {j}
                /\ \A m \in PartitionOf(bookings, i) :
                     bookings[m].created_at <= bookings[j].created_at
         /\ \A i \in Ids(bookings) \ BookedIds(bookings) : bookings[i].id \in RowIds(bookings')
         /\ \A i \in BookedIds(bookings) :
              PartitionOf(bookings, i) = {i} => bookings[i].id \in RowIds(bookings')
         /\ \A k \in Ids(bookings') : \E i \in Ids(bookings) : bookings'[k] = bookings[i]
         /\ IndexCreatable(bookings')]_vars

\* the cleanup has deleted the older of two booked rows of a tuple and kept
\* a cancelled row of the same tuple
C37_Witness ==
  /\ Len(bookings) = 2
  /\ bookings[1].status = "cancelled"
  /\ bookings[2].status = "booked"
  /\ bookings[2].id = 3
  /\ bookings[2].created_at = 2
  /\ SameTuple(bookings[1], bookings[2].user_id, bookings[2].slot_id,
               bookings[2].booking_date, bookings[2].resource_type)

====
